---- MODULE Spec2Model ----
(***************************************************************************)
(* A model of src/src/etl.py: read_data, transform_data, load_data, main.  *)
(* Text is a sequence of one-character strings, so that strip, split,      *)
(* zfill, strptime, strftime, float and format are computed character by   *)
(* character as the Python library computes them.                          *)
(***************************************************************************)
EXTENDS Integers, Sequences, FiniteSets, TLC

VARIABLES
    pc,                 \* the position of the running call
    entry,              \* the function the caller invoked: "main" or "transform_data"
    file,               \* the lines of the input file
    line_no,            \* lines read_data has consumed
    raw_data,           \* read_data's list / transform_data's argument
    idx,                \* records transform_data has consumed
    transformed_data,   \* transform_data's output list
    skipped_records,    \* transform_data's skip counter
    full_name,          \* transform_data's local: <<>> unbound, <<text>> bound
    birth_date_str_raw, \* transform_data's local: <<>> unbound, <<text>> bound
    strptime_calls,     \* calls of datetime.strptime so far
    float_calls,        \* calls of float so far
    mongo_host,         \* load_data's local
    client,             \* "none", "open", "closed"
    insert_calls,       \* the arguments of every insert_many call
    close_calls,        \* calls of client.close
    calls,              \* the stages main has called, in order
    raised,             \* the stages that propagated an exception
    log                 \* the log records, <<level, message>>

vars == <<pc, entry, file, line_no, raw_data, idx, transformed_data,
          skipped_records, full_name, birth_date_str_raw, strptime_calls,
          float_calls, mongo_host, client, insert_calls, close_calls, calls,
          raised, log>>

----------------------------------------------------------------------------
(* Characters and the str methods the program uses. *)

Digits == {"0", "1", "2", "3", "4", "5", "6", "7", "8", "9"}

NonZeroDigits == Digits \ {"0"}

DigitSeq == <<"0", "1", "2", "3", "4", "5", "6", "7", "8", "9">>

DigitVal(c) == (CHOOSE i \in 1..10 : DigitSeq[i] = c) - 1

Whitespace == {" ", "\t", "\n", "\r"}

CharAt(s, p) == IF p >= 1 /\ p <= Len(s) THEN s[p] ELSE ""

RECURSIVE LStrip(_, _)
LStrip(s, cs) ==
    IF Len(s) = 0 THEN <<>>
    ELSE IF s[1] \in cs THEN LStrip(Tail(s), cs)
    ELSE s

RECURSIVE RStrip(_, _)
RStrip(s, cs) ==
    IF Len(s) = 0 THEN <<>>
    ELSE IF s[Len(s)] \in cs THEN RStrip(SubSeq(s, 1, Len(s) - 1), cs)
    ELSE s

\* str.strip(): both ends, whitespace
Strip(s) == RStrip(LStrip(s, Whitespace), Whitespace)

\* str.strip(chars)
StripChars(s, cs) == RStrip(LStrip(s, cs), cs)

\* str.split(sep) for a one-character separator: always at least one token
RECURSIVE Split(_, _)
Split(s, sep) ==
    IF \A i \in 1..Len(s) : s[i] # sep THEN <<s>>
    ELSE LET p == CHOOSE i \in 1..Len(s) :
                      s[i] = sep /\ \A j \in 1..(i - 1) : s[j] # sep
         IN  <<SubSeq(s, 1, p - 1)>> \o Split(SubSeq(s, p + 1, Len(s)), sep)

\* mutation of ZFill: the padding is left out
ZFillNone(s, width) == s

\* mutation of ZFill: the zeros are put on the right (ljust)
ZFillRight(s, width) ==
    IF Len(s) >= width THEN s
    ELSE s \o [i \in 1..(width - Len(s)) |-> "0"]

\* str.zfill(width): zeros go after a leading sign
ZFill(s, width) ==
    IF Len(s) >= width THEN s
    ELSE LET fill == [i \in 1..(width - Len(s)) |-> "0"]
         IN  IF Len(s) > 0 /\ s[1] \in {"+", "-"}
             THEN <<s[1]>> \o fill \o Tail(s)
             ELSE fill \o s

RECURSIVE DigitsValue(_)
DigitsValue(s) ==
    IF Len(s) = 0 THEN 0
    ELSE 10 * DigitsValue(SubSeq(s, 1, Len(s) - 1)) + DigitVal(s[Len(s)])

RECURSIVE Pow10(_)
Pow10(n) == IF n <= 0 THEN 1 ELSE 10 * Pow10(n - 1)

\* the decimal digits of a natural number, at least `width` of them
RECURSIVE NatText(_, _)
NatText(n, width) ==
    IF n < 10 /\ width <= 1 THEN <<DigitSeq[n + 1]>>
    ELSE NatText(n \div 10, width - 1) \o <<DigitSeq[(n % 10) + 1]>>

----------------------------------------------------------------------------
(* datetime.strptime(s, '%d%m%Y') and strftime('%d/%m/%Y').  strptime        *)
(* compiles the format to the regular expression                            *)
(*   (?P<d>3[0-1]|[1-2]\d|0[1-9]|[1-9]| [1-9])(?P<m>1[0-2]|0[1-9]|[1-9])    *)
(*   (?P<Y>\d\d\d\d)                                                        *)
(* matches it at the start of the string (alternatives in order, with       *)
(* backtracking), rejects unconverted trailing data, and then builds the    *)
(* date, which rejects a day the month does not have and the year 0.        *)

\* the lengths the %d group can take at position p, in the order tried
DayAlt(s, p) ==
    LET c1 == CharAt(s, p)
        c2 == CharAt(s, p + 1)
    IN  (IF c1 = "3" /\ c2 \in {"0", "1"} THEN <<2>> ELSE <<>>)
        \o (IF c1 \in {"1", "2"} /\ c2 \in Digits THEN <<2>> ELSE <<>>)
        \o (IF c1 = "0" /\ c2 \in NonZeroDigits THEN <<2>> ELSE <<>>)
        \o (IF c1 \in NonZeroDigits THEN <<1>> ELSE <<>>)
        \o (IF c1 = " " /\ c2 \in NonZeroDigits THEN <<2>> ELSE <<>>)

\* the lengths the %m group can take at position p, in the order tried
MonthAlt(s, p) ==
    LET c1 == CharAt(s, p)
        c2 == CharAt(s, p + 1)
    IN  (IF c1 = "1" /\ c2 \in {"0", "1", "2"} THEN <<2>> ELSE <<>>)
        \o (IF c1 = "0" /\ c2 \in NonZeroDigits THEN <<2>> ELSE <<>>)
        \o (IF c1 \in NonZeroDigits THEN <<1>> ELSE <<>>)

\* %Y at position p: exactly four digits
YearAt(s, p) == \A i \in 0..3 : CharAt(s, p + i) \in Digits

\* int() of a matched group (a %d group may hold a leading space)
GroupInt(s) == DigitsValue(LStrip(s, {" "}))

\* re.match: the first way, in the order of the alternatives, to match all
\* three groups; found = FALSE when there is none
RegexMatch(s) ==
    LET ds == DayAlt(s, 1)
        ways == {w \in (1..Len(ds)) \X (1..3) :
                    /\ w[2] <= Len(MonthAlt(s, 1 + ds[w[1]]))
                    /\ YearAt(s, 1 + ds[w[1]] + MonthAlt(s, 1 + ds[w[1]])[w[2]])}
    IN  IF ways = {} THEN [found |-> FALSE]
        ELSE LET w == CHOOSE x \in ways : \A y \in ways :
                          x[1] < y[1] \/ (x[1] = y[1] /\ x[2] <= y[2])
                 dl == ds[w[1]]
                 ml == MonthAlt(s, 1 + dl)[w[2]]
             IN  [found |-> TRUE,
                  d |-> GroupInt(SubSeq(s, 1, dl)),
                  m |-> DigitsValue(SubSeq(s, 1 + dl, dl + ml)),
                  Y |-> DigitsValue(SubSeq(s, 1 + dl + ml, dl + ml + 4)),
                  end |-> dl + ml + 4]

IsLeap(y) == y % 4 = 0 /\ (y % 100 # 0 \/ y % 400 = 0)

DaysInMonth(y, m) ==
    IF m = 2 THEN (IF IsLeap(y) THEN 29 ELSE 28)
    ELSE IF m \in {4, 6, 9, 11} THEN 30
    ELSE 31

\* datetime(year, month, day) accepts exactly these
ValidDate(y, m, d) ==
    /\ y >= 1 /\ y <= 9999
    /\ m >= 1 /\ m <= 12
    /\ d >= 1 /\ d <= DaysInMonth(y, m)

\* datetime.strptime(s, '%d%m%Y'): ok = FALSE stands for ValueError
StrpTime(s) ==
    LET mt == RegexMatch(s)
    IN  IF ~mt.found THEN [ok |-> FALSE]
        ELSE IF mt.end # Len(s) THEN [ok |-> FALSE]
        ELSE IF ~ValidDate(mt.Y, mt.m, mt.d) THEN [ok |-> FALSE]
        ELSE [ok |-> TRUE, year |-> mt.Y, month |-> mt.m, day |-> mt.d]

\* strftime('%d/%m/%Y'); %Y is written with four digits, as documented (a C
\* library that does not pad writes fewer for a year below 1000)
StrfTime(date) ==
    NatText(date.day, 2) \o <<"/">> \o NatText(date.month, 2) \o <<"/">>
        \o NatText(date.year, 4)

\* datetime(2024, 3, 1)
reference_date == [year |-> 2024, month |-> 3, day |-> 1]

\* mutation of TupleLess: <= in place of <
TupleLessEq(a, b) == a[1] < b[1] \/ (a[1] = b[1] /\ a[2] <= b[2])

\* Python's < on pairs: lexicographic
TupleLess(a, b) == a[1] < b[1] \/ (a[1] = b[1] /\ a[2] < b[2])

\* a bool used as an int
BoolInt(b) == IF b THEN 1 ELSE 0

\* the age expression of transform_data
Age(birth_date) ==
    reference_date.year - birth_date.year
        - BoolInt(TupleLess(<<reference_date.month, reference_date.day>>,
                            <<birth_date.month, birth_date.day>>))

----------------------------------------------------------------------------
(* float(s) and "${:,.2f}".format(x).  A parsed float is                    *)
(*   [kind |-> "error"] (ValueError), [kind |-> "nan"],                     *)
(*   [kind |-> "inf", neg |-> b], or                                        *)
(*   [kind |-> "finite", neg |-> b, num |-> n, scale |-> k], the value      *)
(*   n / 10^k with its sign.                                                *)
(* The decimal value is kept exactly; the binary double nearest to it       *)
(* compares with 50000 and with 100000 as the decimal does for every        *)
(* numeral of up to 15 significant digits.                                  *)

Lower(c) ==
    CASE c = "N" -> "n" [] c = "A" -> "a" [] c = "I" -> "i" [] c = "F" -> "f"
      [] c = "T" -> "t" [] c = "Y" -> "y" [] c = "E" -> "e" [] OTHER -> c

LowerText(s) == [i \in 1..Len(s) |-> Lower(s[i])]

\* digits with single underscores between digits; may be empty
IsDigitGroup(s) ==
    \A i \in 1..Len(s) :
        \/ s[i] \in Digits
        \/ s[i] = "_" /\ CharAt(s, i - 1) \in Digits /\ CharAt(s, i + 1) \in Digits

RECURSIVE DropUnderscores(_)
DropUnderscores(s) ==
    IF Len(s) = 0 THEN <<>>
    ELSE IF s[1] = "_" THEN DropUnderscores(Tail(s))
    ELSE <<s[1]>> \o DropUnderscores(Tail(s))

\* [sign] digits: the exponent after "e"
ParseExponent(s) ==
    LET signed == Len(s) > 0 /\ s[1] \in {"+", "-"}
        body == IF signed THEN Tail(s) ELSE s
    IN  IF Len(body) = 0 \/ ~IsDigitGroup(body) THEN [ok |-> FALSE]
        ELSE [ok |-> TRUE,
              value |-> IF signed /\ s[1] = "-"
                        THEN 0 - DigitsValue(DropUnderscores(body))
                        ELSE DigitsValue(DropUnderscores(body))]

\* digits [. digits] | . digits, then an optional exponent
ParseDecimal(s, neg) ==
    LET parts == Split(s, "e")
        mant == Split(parts[1], ".")
        ip == mant[1]
        fp == IF Len(mant) = 2 THEN mant[2] ELSE <<>>
        ex == IF Len(parts) = 2 THEN ParseExponent(parts[2])
              ELSE [ok |-> TRUE, value |-> 0]
    IN  IF \/ Len(parts) > 2 \/ Len(mant) > 2
           \/ Len(ip) + Len(fp) = 0
           \/ ~IsDigitGroup(ip) \/ ~IsDigitGroup(fp)
           \/ ~ex.ok
        THEN [kind |-> "error"]
        ELSE LET digits == DropUnderscores(ip) \o DropUnderscores(fp)
                 k == Len(DropUnderscores(fp)) - ex.value
             IN  [kind |-> "finite", neg |-> neg,
                  num |-> DigitsValue(digits) * Pow10(0 - k),
                  scale |-> IF k > 0 THEN k ELSE 0]

\* float(s) for a str
ParseFloat(s) ==
    LET t == LowerText(Strip(s))
        signed == Len(t) > 0 /\ t[1] \in {"+", "-"}
        neg == signed /\ t[1] = "-"
        body == IF signed THEN Tail(t) ELSE t
    IN  IF body = <<"n", "a", "n">> THEN [kind |-> "nan"]
        ELSE IF body \in {<<"i", "n", "f">>,
                          <<"i", "n", "f", "i", "n", "i", "t", "y">>}
        THEN [kind |-> "inf", neg |-> neg]
        ELSE ParseDecimal(body, neg)

\* an int as a float
IntFloat(n) ==
    [kind |-> "finite", neg |-> n < 0, num |-> IF n < 0 THEN 0 - n ELSE n,
     scale |-> 0]

Signed(x) == IF x.neg THEN 0 - x.num ELSE x.num

\* a < b on floats: every comparison with nan is False
FloatLess(a, b) ==
    IF a.kind = "nan" \/ b.kind = "nan" THEN FALSE
    ELSE IF a.kind = "inf" THEN a.neg /\ ~(b.kind = "inf" /\ b.neg)
    ELSE IF b.kind = "inf" THEN ~b.neg
    ELSE Signed(a) * Pow10(b.scale) < Signed(b) * Pow10(a.scale)

\* a <= b on floats
FloatLessEq(a, b) ==
    IF a.kind = "nan" \/ b.kind = "nan" THEN FALSE
    ELSE IF a.kind = "inf" THEN a.neg \/ (b.kind = "inf" /\ ~b.neg)
    ELSE IF b.kind = "inf" THEN ~b.neg
    ELSE Signed(a) * Pow10(b.scale) <= Signed(b) * Pow10(a.scale)

\* the digits of n in groups of three separated by ","
RECURSIVE Grouped(_)
Grouped(n) ==
    IF n < 1000 THEN NatText(n, 1)
    ELSE Grouped(n \div 1000) \o <<",">> \o NatText(n % 1000, 3)

\* x in hundredths.  With more than two fraction digits the double's binary
\* value decides how a tie is rounded; the decimal rounds it half to even.  No
\* Salary text of the inputs has more than two.
Hundredths(x) ==
    IF x.scale <= 2 THEN x.num * Pow10(2 - x.scale)
    ELSE LET unit == Pow10(x.scale - 2)
             q == x.num \div unit
             r == x.num % unit
         IN  IF 2 * r > unit \/ (2 * r = unit /\ q % 2 = 1) THEN q + 1 ELSE q

\* "${:,.2f}".format(x)
FormatSalary(x) ==
    IF x.kind = "nan" THEN <<"$", "n", "a", "n">>
    ELSE IF x.kind = "inf"
    THEN <<"$">> \o (IF x.neg THEN <<"-">> ELSE <<>>) \o <<"i", "n", "f">>
    ELSE LET h == Hundredths(x)
         IN  <<"$">> \o (IF x.neg THEN <<"-">> ELSE <<>>)
                 \o Grouped(h \div 100) \o <<".">> \o NatText(h % 100, 2)

\* the if/elif/else that assigns salary_bucket
SalaryBucket(salary_float) ==
    IF FloatLess(salary_float, IntFloat(50000)) THEN "A"
    ELSE IF FloatLessEq(IntFloat(50000), salary_float)
            /\ FloatLessEq(salary_float, IntFloat(100000)) THEN "B"
    ELSE "C"

----------------------------------------------------------------------------
(* transform_data.  A raw record is a function from field names to text; a  *)
(* record that lacks a key makes record[key] raise KeyError.                *)

FieldNames ==
    <<"FirstName", "LastName", "Company", "BirthDate", "Salary", "Address",
      "Suburb", "State", "Post", "Phone", "Mobile", "Email">>

FieldSet == {FieldNames[i] : i \in 1..Len(FieldNames)}

\* the keys the loop body reads after the salary
LateKeys ==
    {"Address", "Suburb", "State", "Post", "Company", "Phone", "Mobile", "Email"}

\* mutation of OnValueError: the skip counter is not incremented
OnValueErrorUncounted(name, raw, sc, fc) ==
    [kind |-> "skip_value", out |-> <<>>, skipped |-> 0,
     full_name |-> <<name>>, birth_date_str_raw |-> <<raw>>,
     strptime |-> sc, float |-> fc,
     log |-> <<<<"WARNING", "date parsing error">>>>]

\* the `except ValueError` branch: both names it logs are bound by then
OnValueError(name, raw, sc, fc) ==
    [kind |-> "skip_value", out |-> <<>>, skipped |-> 1,
     full_name |-> <<name>>, birth_date_str_raw |-> <<raw>>,
     strptime |-> sc, float |-> fc,
     log |-> <<<<"WARNING", "date parsing error">>>>]

\* the `except Exception` branch: its message reads full_name, which is
\* unbound when no record so far got past the name (UnboundLocalError, raised
\* inside the handler, leaves transform_data)
OnException(fn, bd, sc, fc) ==
    IF fn = <<>>
    THEN [kind |-> "raise", out |-> <<>>, skipped |-> 0,
          full_name |-> fn, birth_date_str_raw |-> bd,
          strptime |-> sc, float |-> fc, log |-> <<>>]
    ELSE [kind |-> "skip_unexpected", out |-> <<>>, skipped |-> 1,
          full_name |-> fn, birth_date_str_raw |-> bd,
          strptime |-> sc, float |-> fc,
          log |-> <<<<"ERROR", "unexpected error">>>>]

\* the `if not birth_date_str_raw or len(...) < 6` branch
OnBadFormat(name, raw) ==
    [kind |-> "skip_format", out |-> <<>>, skipped |-> 1,
     full_name |-> <<name>>, birth_date_str_raw |-> <<raw>>,
     strptime |-> 0, float |-> 0,
     log |-> <<<<"WARNING", "invalid BirthDate format">>>>]

\* mutation of BadFormat: the length bound is 5
BadFormatFive(raw) == Len(raw) = 0 \/ Len(raw) < 5

\* the length test of the BirthDate
BadFormat(raw) == Len(raw) = 0 \/ Len(raw) < 6

\* the transformed record
TransformedRecord(record, name, birth_date, salary_float) ==
    [FullName |-> name,
     Company |-> record["Company"],
     BirthDate |-> StrfTime(birth_date),
     Age |-> Age(birth_date),
     Salary |-> FormatSalary(salary_float),
     SalaryBucket |-> SalaryBucket(salary_float),
     Address |-> [Street |-> record["Address"], Suburb |-> record["Suburb"],
                  State |-> record["State"], Post |-> record["Post"]],
     Phone |-> record["Phone"],
     Mobile |-> record["Mobile"],
     Email |-> record["Email"]]

\* The loop body of transform_data, one operator per stretch of the body
\* between two places where it can leave the try block.  fn and bd are the
\* locals full_name and birth_date_str_raw as the earlier iterations left
\* them.

\* lines 113-134: the address, the record, the append
BuildRecord(record, name, raw, birth_date, salary_float) ==
    IF ~(LateKeys \subseteq DOMAIN record)
    THEN OnException(<<name>>, <<raw>>, 1, 1)
    ELSE [kind |-> "emit",
          out |-> <<TransformedRecord(record, name, birth_date, salary_float)>>,
          skipped |-> 0,
          full_name |-> <<name>>,
          birth_date_str_raw |-> <<raw>>,
          strptime |-> 1, float |-> 1, log |-> <<>>]

\* line 101, after float() was called
AfterFloat(record, name, raw, birth_date, salary_float) ==
    IF salary_float.kind = "error" THEN OnValueError(name, raw, 1, 1)
    ELSE BuildRecord(record, name, raw, birth_date, salary_float)

\* lines 92-101, after strptime was called
AfterStrptime(record, name, raw, birth_date) ==
    IF ~birth_date.ok THEN OnValueError(name, raw, 1, 0)
    ELSE IF "Salary" \notin DOMAIN record
    THEN OnException(<<name>>, <<raw>>, 1, 0)
    ELSE AfterFloat(record, name, raw, birth_date, ParseFloat(record["Salary"]))

\* lines 86-92, with birth_date_str_raw bound
AfterBirthDate(record, name, raw) ==
    IF BadFormat(raw) THEN OnBadFormat(name, raw)
    ELSE AfterStrptime(record, name, raw, StrpTime(ZFill(raw, 8)))

\* line 85, with full_name bound
AfterName(record, name, bd) ==
    IF "BirthDate" \notin DOMAIN record THEN OnException(<<name>>, bd, 0, 0)
    ELSE AfterBirthDate(record, name, Strip(record["BirthDate"]))

\* lines 80-82
LoopBody(record, fn, bd) ==
    IF ~({"FirstName", "LastName"} \subseteq DOMAIN record)
    THEN OnException(fn, bd, 0, 0)
    ELSE AfterName(record,
                   Strip(record["FirstName"]) \o <<" ">>
                       \o Strip(record["LastName"]),
                   bd)

\* mutation of Propagate: the exception is swallowed and the caller goes on
PropagateSwallowed == IF entry = "main" THEN "main_ok" ELSE "returned"

\* where an exception that leaves a stage goes: main's except clause, or the
\* direct caller
Propagate == IF entry = "main" THEN "main_except" ELSE "raised"

\* the effect of one iteration with outcome o
Iterate(o) ==
    /\ idx' = idx + 1
    /\ transformed_data' = transformed_data \o o.out
    /\ skipped_records' = skipped_records + o.skipped
    /\ full_name' = o.full_name
    /\ birth_date_str_raw' = o.birth_date_str_raw
    /\ strptime_calls' = strptime_calls + o.strptime
    /\ float_calls' = float_calls + o.float
    /\ log' = log \o o.log
    /\ pc' = IF o.kind = "raise" THEN Propagate ELSE pc
    /\ raised' = IF o.kind = "raise"
                 THEN Append(raised, "transform_data") ELSE raised

\* one iteration of the loop of transform_data
TransformRecord ==
    /\ pc = "transform"
    /\ idx < Len(raw_data)
    /\ Iterate(LoopBody(raw_data[idx + 1], full_name, birth_date_str_raw))
    /\ UNCHANGED <<entry, file, line_no, raw_data, mongo_host, client,
                   insert_calls, close_calls, calls>>

\* the end of transform_data: two log lines and the return; in main, the
\* call of load_data follows
TransformReturn ==
    /\ pc = "transform"
    /\ idx = Len(raw_data)
    /\ log' = log \o <<<<"INFO", "Transformed">>, <<"INFO", "Skipped">>>>
    /\ pc' = IF entry = "main" THEN "load_resolve" ELSE "returned"
    /\ calls' = IF entry = "main" THEN Append(calls, "load_data") ELSE calls
    /\ UNCHANGED <<entry, file, line_no, raw_data, idx, transformed_data,
                   skipped_records, full_name, birth_date_str_raw,
                   strptime_calls, float_calls, mongo_host, client,
                   insert_calls, close_calls, raised>>

----------------------------------------------------------------------------
(* read_data *)

\* the record built from the 12 fields of a line
RawRecord(fields) ==
    [k \in FieldSet |->
        LET i == CHOOSE j \in 1..Len(FieldNames) : FieldNames[j] = k
        IN  IF k = "Company" THEN StripChars(Strip(fields[i]), {"\""})
            ELSE Strip(fields[i])]

\* one iteration of `for line in file`
ReadLine ==
    /\ pc = "read"
    /\ line_no < Len(file)
    /\ LET line == Strip(file[line_no + 1])
           fields == Split(line, "|")
       IN  IF Len(fields) # 12
           THEN /\ log' = Append(log, <<"WARNING", "incorrect number of fields">>)
                /\ raw_data' = raw_data
           ELSE /\ raw_data' = Append(raw_data, RawRecord(fields))
                /\ log' = log
    /\ line_no' = line_no + 1
    /\ UNCHANGED <<pc, entry, file, idx, transformed_data, skipped_records,
                   full_name, birth_date_str_raw, strptime_calls, float_calls,
                   mongo_host, client, insert_calls, close_calls, calls, raised>>

\* open() or a read of the file raises: the except clause logs and re-raises
ReadFail ==
    /\ pc = "read"
    /\ log' = Append(log, <<"ERROR", "Failed to read data">>)
    /\ raised' = Append(raised, "read_data")
    /\ pc' = Propagate
    /\ UNCHANGED <<entry, file, line_no, raw_data, idx, transformed_data,
                   skipped_records, full_name, birth_date_str_raw,
                   strptime_calls, float_calls, mongo_host, client,
                   insert_calls, close_calls, calls>>

\* the end of the file: read_data logs and returns, and main calls
\* transform_data with what it returned
ReadReturn ==
    /\ pc = "read"
    /\ line_no = Len(file)
    /\ log' = Append(log, <<"INFO", "Extracted">>)
    /\ calls' = Append(calls, "transform_data")
    /\ pc' = "transform"
    /\ UNCHANGED <<entry, file, line_no, raw_data, idx, transformed_data,
                   skipped_records, full_name, birth_date_str_raw,
                   strptime_calls, float_calls, mongo_host, client,
                   insert_calls, close_calls, raised>>

----------------------------------------------------------------------------
(* load_data *)

\* socket.gethostbyname('mongo') returns, or raises gaierror
LoadResolveHost ==
    /\ pc = "load_resolve"
    /\ \E resolved \in BOOLEAN :
           mongo_host' = IF resolved THEN "mongo" ELSE "localhost"
    /\ pc' = "load_connect"
    /\ UNCHANGED <<entry, file, line_no, raw_data, idx, transformed_data,
                   skipped_records, full_name, birth_date_str_raw,
                   strptime_calls, float_calls, client, insert_calls,
                   close_calls, calls, raised, log>>

\* the except clause of load_data: log and re-raise
LoadExcept ==
    /\ log' = Append(log, <<"ERROR", "error while loading data">>)
    /\ raised' = Append(raised, "load_data")
    /\ pc' = Propagate

\* MongoClient(...) returns a client, or raises
LoadConnect ==
    /\ pc = "load_connect"
    /\ \E ok \in BOOLEAN :
           IF ok
           THEN /\ client' = "open"
                /\ pc' = "load_insert"
                /\ UNCHANGED <<raised, log>>
           ELSE /\ client' = client
                /\ LoadExcept
    /\ UNCHANGED <<entry, file, line_no, raw_data, idx, transformed_data,
                   skipped_records, full_name, birth_date_str_raw,
                   strptime_calls, float_calls, mongo_host, insert_calls,
                   close_calls, calls>>

\* collection.insert_many(data) returns, or raises
LoadInsert ==
    /\ pc = "load_insert"
    /\ insert_calls' = Append(insert_calls, transformed_data)
    /\ \E ok \in BOOLEAN :
           IF ok
           THEN /\ pc' = "load_close"
                /\ UNCHANGED <<raised, log>>
           ELSE LoadExcept
    /\ UNCHANGED <<entry, file, line_no, raw_data, idx, transformed_data,
                   skipped_records, full_name, birth_date_str_raw,
                   strptime_calls, float_calls, mongo_host, client,
                   close_calls, calls>>

\* client.close(), the log line and the return
LoadClose ==
    /\ pc = "load_close"
    /\ client' = "closed"
    /\ close_calls' = close_calls + 1
    /\ log' = Append(log, <<"INFO", "Data loaded">>)
    /\ pc' = "main_ok"
    /\ UNCHANGED <<entry, file, line_no, raw_data, idx, transformed_data,
                   skipped_records, full_name, birth_date_str_raw,
                   strptime_calls, float_calls, mongo_host, insert_calls,
                   calls, raised>>

----------------------------------------------------------------------------
(* main *)

\* the first log line and the call of read_data
MainStart ==
    /\ pc = "main"
    /\ log' = Append(log, <<"INFO", "Starting ETL process">>)
    /\ calls' = Append(calls, "read_data")
    /\ pc' = "read"
    /\ UNCHANGED <<entry, file, line_no, raw_data, idx, transformed_data,
                   skipped_records, full_name, birth_date_str_raw,
                   strptime_calls, float_calls, mongo_host, client,
                   insert_calls, close_calls, raised>>

\* the last line of the try block
MainSuccess ==
    /\ pc = "main_ok"
    /\ log' = Append(log, <<"INFO", "ETL process completed successfully">>)
    /\ pc' = "done"
    /\ UNCHANGED <<entry, file, line_no, raw_data, idx, transformed_data,
                   skipped_records, full_name, birth_date_str_raw,
                   strptime_calls, float_calls, mongo_host, client,
                   insert_calls, close_calls, calls, raised>>

\* the except clause of main
MainExcept ==
    /\ pc = "main_except"
    /\ log' = Append(log, <<"ERROR", "ETL process failed">>)
    /\ pc' = "done"
    /\ UNCHANGED <<entry, file, line_no, raw_data, idx, transformed_data,
                   skipped_records, full_name, birth_date_str_raw,
                   strptime_calls, float_calls, mongo_host, client,
                   insert_calls, close_calls, calls, raised>>

----------------------------------------------------------------------------
(* Inputs *)

\* how many records a direct call of transform_data is given
MaxRecords == 3

\* how many lines the input file has
MaxLines == 2

\* BirthDate texts of up to this length are enumerated exhaustively
MaxFreeLen == 6

\* the characters of the exhaustively enumerated BirthDate texts
FreeChars == {"0", "1", "3", " ", "+"}

\* the record of tests/test_etl.py, with shorter texts
BaseRecord ==
    [FirstName |-> <<" ", "J", "o", " ">>,
     LastName  |-> <<"D", "o", "e", " ">>,
     Company   |-> <<"C", "o">>,
     BirthDate |-> NatText(15011980, 8),
     Salary    |-> <<"7", "5", "0", "0", "0", ".", "0", "0">>,
     Address   |-> <<"1", " ", "S", "t">>,
     Suburb    |-> <<"T">>,
     State     |-> <<"N">>,
     Post      |-> <<"2">>,
     Phone     |-> <<"3">>,
     Mobile    |-> <<"4">>,
     Email     |-> <<"e">>]

With(record, key, text) == [record EXCEPT ![key] = text]

Without(record, key) == [k \in (DOMAIN record) \ {key} |-> record[k]]

\* day, month and year texts, with and without their leading zeros
DayTexts ==
    {<<"0", "1">>, <<"1">>, <<"0", "2">>, <<"2">>, <<"1", "0">>, <<"1", "5">>,
     <<"2", "9">>, <<"3", "1">>, <<"3", "2">>, <<"0", "0">>}

MonthTexts ==
    {<<"0", "1">>, <<"1">>, <<"0", "2">>, <<"0", "3">>, <<"3">>, <<"0", "4">>,
     <<"1", "2">>, <<"1", "3">>, <<"0", "0">>}

YearTexts ==
    {NatText(1980, 4), NatText(1981, 4), NatText(2024, 4), NatText(2025, 4),
     NatText(0, 4), <<"8", "0">>, <<"1", "9", "8", "x">>,
     <<"1", "9", "8", "0", "0">>}

\* BirthDate texts written day, month, year
DateTexts == {d \o m \o y : d \in DayTexts, m \in MonthTexts, y \in YearTexts}

\* every text over FreeChars of up to MaxFreeLen characters
FreeTexts == UNION {[1..n -> FreeChars] : n \in 0..MaxFreeLen}

\* other BirthDate texts: padded with blanks, signed, not digits
OddDateTexts ==
    {<<" ">> \o NatText(1011980, 7) \o <<" ">>,
     <<" ", " ">> \o NatText(11980, 5),
     <<"-">> \o NatText(1011980, 7),
     <<"+">> \o NatText(101198, 6),
     <<"1", "5", "/", "0", "1", "/", "1", "9", "8", "0">>,
     <<"a", "b", "c", "d", "e", "f">>}

BirthDateTexts == DateTexts \cup FreeTexts \cup OddDateTexts

\* Salary texts around the bucket bounds, and what float accepts or rejects
SalaryTexts ==
    {<<"4", "9", "9", "9", "9", ".", "9", "9">>,
     <<"5", "0", "0", "0", "0", ".", "0", "0">>,
     <<"5", "0", "0", "0", "0">>,
     <<"5", "0", "0", "0", "0", ".", "0", "1">>,
     <<"7", "5", "0", "0", "0", ".", "0", "0">>,
     <<"9", "9", "9", "9", "9", ".", "9", "9">>,
     <<"1", "0", "0", "0", "0", "0", ".", "0", "0">>,
     <<"1", "0", "0", "0", "0", "0">>,
     <<"1", "0", "0", "0", "0", "0", ".", "0", "1">>,
     <<"1", "e", "5">>,
     <<"1", "_", "0", "0", "0">>,
     <<" ", "9", "9", "9", ".", "5", " ">>,
     <<"0">>, <<"-", "5">>, <<".", "5">>, <<"5", ".">>,
     <<"i", "n", "f">>, <<"-", "i", "n", "f">>, <<"n", "a", "n">>,
     <<"N", "a", "N">>,
     <<>>, <<".">>, <<"a", "b", "c">>, <<"$", "5">>, <<"1", ",", "0", "0", "0">>,
     <<"1", " ", "0">>}

\* the BirthDate texts each Salary text is tried with
SalaryDates ==
    {NatText(15011980, 8), NatText(1011980, 7), NatText(31021980, 8),
     NatText(11980, 5)}

\* the single records transform_data is tried on
RecordInputs ==
    {With(BaseRecord, "BirthDate", b) : b \in BirthDateTexts}
    \cup {With(With(BaseRecord, "BirthDate", b), "Salary", s) :
              b \in SalaryDates, s \in SalaryTexts}
    \cup {With(With(BaseRecord, "BirthDate", NatText(11980, 5)), "FirstName", <<>>)}

\* a second well-formed record, told from BaseRecord by every output field
OtherRecord ==
    [FirstName |-> <<"A">>,
     LastName  |-> <<"B">>,
     Company   |-> <<"X">>,
     BirthDate |-> NatText(2031980, 7),
     Salary    |-> <<"1", "0", "0", "0", "0", "0", ".", "0", "1">>,
     Address   |-> <<"5">>,
     Suburb    |-> <<"U">>,
     State     |-> <<"V">>,
     Post      |-> <<"6">>,
     Phone     |-> <<"7">>,
     Mobile    |-> <<"8">>,
     Email     |-> <<"f">>]

\* the records of the sequences transform_data is tried on: well-formed ones
\* that pass or fail each validation, and records that lack a key
SequenceRecords ==
    {BaseRecord, OtherRecord,
     With(BaseRecord, "BirthDate", NatText(11980, 5)),
     With(OtherRecord, "BirthDate", NatText(31021980, 8)),
     With(BaseRecord, "Salary", <<"a", "b", "c">>),
     With(OtherRecord, "Salary", <<"n", "a", "n">>)}
    \cup {Without(BaseRecord, k) :
              k \in {"FirstName", "LastName", "BirthDate", "Salary", "Email"}}

RECURSIVE SeqsUpTo(_, _)
SeqsUpTo(S, n) ==
    IF n = 0 THEN {<<>>}
    ELSE LET shorter == SeqsUpTo(S, n - 1)
         IN  shorter \cup {Append(q, x) : q \in shorter, x \in S}

\* a valid date written with 8 digits, and the same date with the leading
\* zero of its day, of its month, or of both left out
PairDays == {1, 2, 5, 9, 10, 15, 28, 29, 30, 31}

PairMonths == {1, 2, 3, 4, 9, 10, 11, 12}

PairYears == {1979, 1980, 1981, 2000, 2024}

\* how the day and the month are written: the least number of digits of each
Widths == {<<1, 2>>, <<2, 1>>, <<1, 1>>}

\* <<the 8-digit text, a shorter text of the same date>>
PairsOf(d, m, y) ==
    IF ~ValidDate(y, m, d) THEN {}
    ELSE {p \in {<<NatText(d, 2) \o NatText(m, 2) \o NatText(y, 4),
                   NatText(d, w[1]) \o NatText(m, w[2]) \o NatText(y, 4)>> :
                     w \in Widths} :
             Len(p[2]) < 8}

DatePairs ==
    UNION {PairsOf(d, m, y) : d \in PairDays, m \in PairMonths, y \in PairYears}

\* the lines of the input files
Join(tokens) ==
    LET RECURSIVE J(_)
        J(n) == IF n = 1 THEN tokens[1] ELSE J(n - 1) \o <<"|">> \o tokens[n]
    IN  IF Len(tokens) = 0 THEN <<>> ELSE J(Len(tokens))

Tokens(record) == [i \in 1..Len(FieldNames) |-> record[FieldNames[i]]]

Padded(tokens) == [i \in 1..Len(tokens) |-> <<" ">> \o tokens[i] \o <<" ", " ">>]

LineInputs ==
    {Join(Tokens(BaseRecord)),
     Join(Tokens(OtherRecord)),
     Join(Padded(Tokens(BaseRecord))),
     Join(Tokens(With(BaseRecord, "Company", <<"\"", "C", "o", "\"">>))),
     Join(Tokens(With(OtherRecord, "Company", <<" ", "\"", " ", "X", " ", "\"">>))),
     Join(Tokens(With(BaseRecord, "BirthDate", NatText(11980, 5)))),
     Join(Tokens(With(OtherRecord, "Salary", <<"a", "b", "c">>))),
     Join(Tokens(With(BaseRecord, "Email", <<>>))) \o <<" ">>,
     Join([i \in 1..12 |-> <<>>]),
     Join(SubSeq(Tokens(BaseRecord), 1, 11)),
     Join(Tokens(OtherRecord)) \o <<"|", "x">>,
     <<>>,
     <<" ">>,
     <<"x">>}

----------------------------------------------------------------------------
(* Specifications *)

\* the state on entry, for the caller's choice of function and input
Start(function, lines, records) ==
    /\ entry = function
    /\ pc = IF function = "main" THEN "main" ELSE "transform"
    /\ file = lines
    /\ line_no = 0
    /\ raw_data = records
    /\ idx = 0
    /\ transformed_data = <<>>
    /\ skipped_records = 0
    /\ full_name = <<>>
    /\ birth_date_str_raw = <<>>
    /\ strptime_calls = 0
    /\ float_calls = 0
    /\ mongo_host = ""
    /\ client = "none"
    /\ insert_calls = <<>>
    /\ close_calls = 0
    /\ calls = <<>>
    /\ raised = <<>>
    /\ log = <<>>

\* main() on a file of up to MaxLines lines
Init == \E lines \in SeqsUpTo(LineInputs, MaxLines) : Start("main", lines, <<>>)

Next ==
    \/ MainStart
    \/ ReadLine
    \/ ReadFail
    \/ ReadReturn
    \/ TransformRecord
    \/ TransformReturn
    \/ LoadResolveHost
    \/ LoadConnect
    \/ LoadInsert
    \/ LoadClose
    \/ MainSuccess
    \/ MainExcept

Spec == Init /\ [][Next]_vars

\* transform_data called on its own
NextTransform ==
    \/ TransformRecord
    \/ TransformReturn

\* transform_data(data) for every sequence of up to MaxRecords records
InitTransform ==
    \E records \in SeqsUpTo(SequenceRecords, MaxRecords) :
        Start("transform_data", <<>>, records)

SpecTransform == InitTransform /\ [][NextTransform]_vars

\* transform_data([record]) for every single record
InitRecord == \E record \in RecordInputs : Start("transform_data", <<>>, <<record>>)

SpecRecord == InitRecord /\ [][NextTransform]_vars

\* transform_data([full, short]): two records that differ in how the same
\* date is written
InitPair ==
    \E p \in DatePairs :
        Start("transform_data", <<>>,
              <<With(BaseRecord, "BirthDate", p[1]),
                With(BaseRecord, "BirthDate", p[2])>>)

SpecPair == InitPair /\ [][NextTransform]_vars

----------------------------------------------------------------------------
(* Properties *)

\* a RawRecord: exactly the 12 named fields
IsRawRecord(r) == DOMAIN r = FieldSet

AllRaw == \A i \in 1..Len(raw_data) : IsRawRecord(raw_data[i])

\* the record passes the BirthDate validation and the Salary validation
Passes(r) ==
    /\ Len(Strip(r["BirthDate"])) >= 6
    /\ StrpTime(ZFill(Strip(r["BirthDate"]), 8)).ok
    /\ ParseFloat(r["Salary"]).kind # "error"

\* the output record t was made from the raw record r
MadeFrom(t, r) ==
    /\ t.FullName = Strip(r["FirstName"]) \o <<" ">> \o Strip(r["LastName"])
    /\ t.Company = r["Company"]
    /\ t.Address = [Street |-> r["Address"], Suburb |-> r["Suburb"],
                    State |-> r["State"], Post |-> r["Post"]]
    /\ t.Phone = r["Phone"]
    /\ t.Mobile = r["Mobile"]
    /\ t.Email = r["Email"]

\* the records consumed so far that pass both validations, in input order
PassedSoFar == SelectSeq(SubSeq(raw_data, 1, idx), Passes)

\* C1: on a sequence of RawRecords, the output of transform_data is made of
\* exactly the records that pass the BirthDate and Salary validation, one
\* output record each, in the order of the input; the records that fail give
\* none; and the skip counter is the number of records consumed minus the
\* number of output records, so at the return the input length minus the
\* output length.  The call returns.
C1_OutputIsValidSubsequence ==
    (entry = "transform_data" /\ AllRaw) =>
        /\ pc \in {"transform", "returned"}
        /\ Len(transformed_data) = Len(PassedSoFar)
        /\ \A k \in 1..Len(transformed_data) :
               MadeFrom(transformed_data[k], PassedSoFar[k])
        /\ skipped_records = idx - Len(transformed_data)
        /\ pc = "returned" =>
               skipped_records = Len(raw_data) - Len(transformed_data)

\* a returned call on three RawRecords of which the first and the last pass
\* and the second fails
C1_Witness ==
    /\ pc = "returned"
    /\ AllRaw
    /\ Len(raw_data) = 3
    /\ Passes(raw_data[1]) /\ ~Passes(raw_data[2]) /\ Passes(raw_data[3])
    /\ raw_data[1]["Email"] # raw_data[3]["Email"]
    /\ Len(transformed_data) = 2
    /\ skipped_records = 1

\* C2: no exception propagates out of transform_data: whatever the input
\* sequence, a record that raises an unexpected error (also the first one,
\* also before the full name is computed) is only counted as skipped, every
\* record is consumed, and the call returns with every record either in the
\* output or counted.
C2_NoExceptionPropagates ==
    entry = "transform_data" =>
        /\ pc # "raised"
        /\ pc = "returned" =>
               /\ idx = Len(raw_data)
               /\ skipped_records + Len(transformed_data) = Len(raw_data)

\* load_data has been called and has returned or raised
LoadExited ==
    /\ Len(calls) = 3
    /\ pc \in {"main_ok", "main_except", "done"}

\* C3: when load_data has acquired the connection, then by the time it
\* returns or propagates an error the connection was used for exactly one
\* insert_many, of the full record sequence, and was closed exactly once.
C3_ConnectionClosedOnce ==
    (LoadExited /\ client # "none") =>
        /\ Len(insert_calls) = 1
        /\ insert_calls[1] = transformed_data
        /\ close_calls = 1
        /\ client = "closed"

Stages == <<"read_data", "transform_data", "load_data">>

Logged(level, message) == \E i \in 1..Len(log) : log[i] = <<level, message>>

SuccessLogged == Logged("INFO", "ETL process completed successfully")

\* C4: main calls the stages in the order read_data, transform_data,
\* load_data, each at most once; once a stage has raised (read_data and
\* load_data log and re-raise) no further stage is called, nothing is called
\* again, main logs the failure and stops; success is logged only when all
\* three stages were called and none raised.
C4_StagesInOrderAbortOnFailure ==
    entry = "main" =>
        /\ Len(calls) <= 3
        /\ calls = SubSeq(Stages, 1, Len(calls))
        /\ Len(insert_calls) <= 1
        /\ Len(raised) <= 1
        /\ raised # <<>> =>
               /\ raised[1] = calls[Len(calls)]
               /\ pc \in {"main_except", "done"}
               /\ ~SuccessLogged
               /\ raised[1] = "read_data" => Logged("ERROR", "Failed to read data")
               /\ raised[1] = "load_data" => Logged("ERROR", "error while loading data")
               /\ pc = "done" => Logged("ERROR", "ETL process failed")
        /\ SuccessLogged => (calls = Stages /\ raised = <<>> /\ pc = "done")
        /\ (pc = "done" /\ raised = <<>>) => SuccessLogged

\* a run that load_data's failure aborted, after read_data and
\* transform_data returned
C4_Witness ==
    /\ entry = "main"
    /\ pc = "done"
    /\ calls = Stages
    /\ raised = <<"load_data">>
    /\ Len(raw_data) > 0
    /\ Logged("ERROR", "ETL process failed")

\* the record the next iteration of transform_data consumes
NextRecord == raw_data[idx + 1]

Consuming == pc = "transform" /\ idx < Len(raw_data)

\* C5: an iteration that consumes a RawRecord whose trimmed BirthDate is empty
\* or has fewer than 6 characters appends nothing to the output, adds exactly
\* one to the skip counter and calls neither strptime nor float, whatever the
\* other fields hold.
C5_ShortBirthDateSkipped ==
    [][(/\ Consuming
        /\ IsRawRecord(NextRecord)
        /\ Len(Strip(NextRecord["BirthDate"])) < 6)
       => (/\ transformed_data' = transformed_data
           /\ skipped_records' = skipped_records + 1
           /\ strptime_calls' = strptime_calls
           /\ float_calls' = float_calls
           /\ idx' = idx + 1
           /\ pc' = pc)]_vars

\* a record with a BirthDate of 5 characters and a Salary that is no number
\* has been consumed and skipped
C5_Witness ==
    /\ idx = 1
    /\ IsRawRecord(raw_data[1])
    /\ Len(Strip(raw_data[1]["BirthDate"])) = 5
    /\ ParseFloat(raw_data[1]["Salary"]).kind = "error"
    /\ skipped_records = 1
    /\ transformed_data = <<>>

\* the day, month and year written in an output BirthDate, DD/MM/YYYY
WrittenDay(t) == DigitsValue(SubSeq(t.BirthDate, 1, 2))

WrittenMonth(t) == DigitsValue(SubSeq(t.BirthDate, 4, 5))

WrittenYear(t) == DigitsValue(SubSeq(t.BirthDate, 7, 10))

\* C6: the Age of every emitted record is 2024 minus the birth year, minus 1
\* exactly when the birthday falls after 1 March (the month is after March,
\* or it is March and the day is after the 1st); 01/03/1980 gives 44 and
\* 02/03/1980 gives 43.
C6_AgeIsCalendarAge ==
    \A k \in 1..Len(transformed_data) :
        /\ transformed_data[k].Age =
               2024 - WrittenYear(transformed_data[k])
                    - (IF \/ WrittenMonth(transformed_data[k]) > 3
                          \/ /\ WrittenMonth(transformed_data[k]) = 3
                             /\ WrittenDay(transformed_data[k]) > 1
                       THEN 1 ELSE 0)
        /\ transformed_data[k].BirthDate
               = <<"0", "1", "/", "0", "3", "/", "1", "9", "8", "0">>
               => transformed_data[k].Age = 44
        /\ transformed_data[k].BirthDate
               = <<"0", "2", "/", "0", "3", "/", "1", "9", "8", "0">>
               => transformed_data[k].Age = 43

\* the record born on 02/03/1980 has been emitted, with the year not yet
\* completed
C6_Witness ==
    /\ Len(transformed_data) = 1
    /\ transformed_data[1].BirthDate
           = <<"0", "2", "/", "0", "3", "/", "1", "9", "8", "0">>
    /\ transformed_data[1].Age = 43

\* C7: the SalaryBucket of an emitted record is A exactly when the parsed
\* salary is below 50000, B exactly when it is from 50000 to 100000 with both
\* ends included, C exactly when it is above 100000, and always one of the
\* three.
C7_BucketMatchesSalary ==
    (entry = "transform_data" /\ Len(raw_data) = 1 /\ Len(transformed_data) = 1) =>
        /\ transformed_data[1].SalaryBucket \in {"A", "B", "C"}
        /\ transformed_data[1].SalaryBucket = "A"
               <=> FloatLess(ParseFloat(raw_data[1]["Salary"]), IntFloat(50000))
        /\ transformed_data[1].SalaryBucket = "B"
               <=> /\ FloatLessEq(IntFloat(50000), ParseFloat(raw_data[1]["Salary"]))
                   /\ FloatLessEq(ParseFloat(raw_data[1]["Salary"]), IntFloat(100000))
        /\ transformed_data[1].SalaryBucket = "C"
               <=> FloatLess(IntFloat(100000), ParseFloat(raw_data[1]["Salary"]))

\* the two records of a pair were both emitted, with the same BirthDate, the
\* date of the 8-digit text, and the same Age
SameDate ==
    /\ Len(transformed_data) = 2
    /\ transformed_data[1].BirthDate = transformed_data[2].BirthDate
    /\ transformed_data[1].Age = transformed_data[2].Age
    /\ WrittenDay(transformed_data[2]) = DigitsValue(SubSeq(raw_data[1]["BirthDate"], 1, 2))
    /\ WrittenMonth(transformed_data[2]) = DigitsValue(SubSeq(raw_data[1]["BirthDate"], 3, 4))
    /\ WrittenYear(transformed_data[2]) = DigitsValue(SubSeq(raw_data[1]["BirthDate"], 5, 8))

\* C8 as stated: a BirthDate that leaves out the leading zero of the day or
\* of the month is parsed, after the padding, to the same date as the
\* 8-digit text of that date, and gives the same BirthDate and Age.
C8_PaddingRestoresDayOrMonth ==
    (entry = "transform_data" /\ pc = "returned" /\ Len(raw_data) = 2) => SameDate

\* the second text is the first without its first character, a "0": the
\* leading zero of the day was left out, and nothing else
OmitsDayZero ==
    /\ raw_data[1]["BirthDate"][1] = "0"
    /\ raw_data[2]["BirthDate"] = Tail(raw_data[1]["BirthDate"])

\* C8 amended: a BirthDate that leaves out only the leading zero of the day
\* is parsed, after the padding, to the same date as the 8-digit text, and
\* gives the same BirthDate and Age; "1011980" gives 01/01/1980.  One that
\* leaves out the leading zero of the month is skipped or parsed to another
\* date.
C8_PaddingRestoresDay ==
    (entry = "transform_data" /\ pc = "returned" /\ Len(raw_data) = 2) =>
        /\ OmitsDayZero => SameDate
        /\ ~OmitsDayZero => ~SameDate
        /\ raw_data[2]["BirthDate"] = NatText(1011980, 7) =>
               /\ Len(transformed_data) >= 1
               /\ transformed_data[Len(transformed_data)].BirthDate
                      = <<"0", "1", "/", "0", "1", "/", "1", "9", "8", "0">>

\* "01011980" and "1011980" have both been transformed
C8_Witness ==
    /\ pc = "returned"
    /\ Len(raw_data) = 2
    /\ raw_data[1]["BirthDate"] = NatText(1011980, 8)
    /\ raw_data[2]["BirthDate"] = NatText(1011980, 7)
    /\ OmitsDayZero
    /\ SameDate

\* a line that splits on "|" into exactly 12 tokens: it holds 11 of them
TwelveTokens(line) == Cardinality({i \in 1..Len(line) : line[i] = "|"}) = 11

\* no whitespace at either end
IsTrimmed(v) == Len(v) = 0 \/ (v[1] \notin Whitespace /\ v[Len(v)] \notin Whitespace)

\* text v is token i of the line, trimmed (the Company, field 3, also without
\* the quote characters around it)
ValueOfToken(v, line, i) ==
    /\ IsTrimmed(v)
    /\ IF FieldNames[i] = "Company"
       THEN \E a, b \in 0..Len(Strip(Split(line, "|")[i])) :
                /\ Len(v) = 0 \/ (v[1] # "\"" /\ v[Len(v)] # "\"")
                /\ a + b + Len(v) = Len(Strip(Split(line, "|")[i]))
                /\ Strip(Split(line, "|")[i])
                       = [j \in 1..a |-> "\""] \o v \o [j \in 1..b |-> "\""]
       ELSE v = Strip(Split(line, "|")[i])

\* C9: what read_data returns holds one record for each line of 12 tokens, in
\* file order, each with exactly the 12 named keys and trimmed values; lines
\* of any other token count, the empty line included, give no record and do
\* not stop the reading.
C9_OneTrimmedRecordPerGoodLine ==
    (entry = "main" /\ pc \notin {"main", "read"} /\ raised # <<"read_data">>) =>
        /\ Len(raw_data) = Len(SelectSeq(file, TwelveTokens))
        /\ \A k \in 1..Len(raw_data) :
               /\ DOMAIN raw_data[k] = FieldSet
               /\ \A i \in 1..12 :
                      ValueOfToken(raw_data[k][FieldNames[i]],
                                   SelectSeq(file, TwelveTokens)[k], i)

\* the warning of the `except ValueError` branch
DateWarning == <<"WARNING", "date parsing error">>

\* C10: an iteration that consumes a RawRecord whose trimmed BirthDate has
\* exactly 6 characters passes the length check and is skipped at the date
\* parsing: strptime is called and fails, float is not called, nothing is
\* appended and the skip counter grows by one.  So a BirthDate of fewer than
\* 7 characters never gives an output record.
C10_SixCharactersNeverParse ==
    [][(/\ Consuming
        /\ IsRawRecord(NextRecord)
        /\ Len(Strip(NextRecord["BirthDate"])) < 7)
       => (/\ transformed_data' = transformed_data
           /\ skipped_records' = skipped_records + 1
           /\ Len(Strip(NextRecord["BirthDate"])) = 6 =>
                  /\ strptime_calls' = strptime_calls + 1
                  /\ float_calls' = float_calls
                  /\ log' = Append(log, DateWarning))]_vars

\* a record with a BirthDate of 6 digits has been consumed: strptime was
\* called and the record skipped
C10_Witness ==
    /\ idx = 1
    /\ IsRawRecord(raw_data[1])
    /\ Len(Strip(raw_data[1]["BirthDate"])) = 6
    /\ \A i \in 1..6 : Strip(raw_data[1]["BirthDate"])[i] \in Digits
    /\ strptime_calls = 1
    /\ skipped_records = 1
    /\ transformed_data = <<>>

====
